---- MODULE Spec2Model ----
(***************************************************************************)
(* Habit tracker (Google Apps Script): the analytics engine of the         *)
(* dashboard (completion aggregator, streak, success rate, average, 30-day *)
(* view), the HabitID allocation system, and the tracker at work (form     *)
(* submission, dashboard, accountability email, form dropdown, migration), *)
(* as state machines: Spec, SpecAnalytics, SpecTracker, SpecMigration,     *)
(* SpecMail and SpecForm.                                                  *)
(*                                                                         *)
(* Time.  An instant (a JavaScript Date) is an integer number of ticks     *)
(* since the epoch, TicksPerDay ticks to the day.  Date.toISOString()      *)
(* gives the UTC calendar date; getFullYear/getMonth/getDate/setDate work  *)
(* on the calendar of the script's time zone, which is tz ticks ahead of   *)
(* UTC.  No daylight-saving change falls in the modelled period.           *)
(*                                                                         *)
(* Text.  A string is a sequence of one-character strings, so that the     *)
(* formatting and the parsing of identifiers are computed, not assumed.    *)
(***************************************************************************)
EXTENDS Integers, Sequences, FiniteSets, TLC

VARIABLES
    trackingSheet,      \* data rows of Daily_Tracking, in the order appended
    now,                \* the clock: what new Date() returns
    tz,                 \* script time zone: local time = UTC + tz ticks
    op,                 \* the function or trigger run last ("none" before)
    args,               \* the arguments of that call
    ret,                \* what that call returned
    habitsSheet,        \* data rows of Habits_Main
    highestHabitId,     \* Config row 'Highest_Habit_ID': [present, value]
    lastHabitIdNumber,  \* script property 'lastHabitIdNumber' (<<>>: not set)
    issued,             \* history: every identifier handed out, in order
    sheets,             \* names of the sheets the spreadsheet holds
    dashboardSheet,     \* Dashboard: [headers (row 1, if written), rows]
    formatRules,        \* conditional format rules of Dashboard, in order
    backupSheets,       \* Tracking_Backup_<date> sheets: [date, rows]
    frequencyHeader,    \* the header cell of column E of Habits_Main
    configSheet,        \* Config settings read by getConfig()
    scriptProperties,   \* the thread ids kept in the script properties
    gmailThreads,       \* message count of each mail thread, by thread id
    outbox,             \* history: every message Gmail delivered, in order
    formChoices,        \* choices of the form's 'Habit Selection' question
    formUpdateButton    \* cell J1 of Habits_Main: "", "pending" or "success"

calcVars == <<trackingSheet, now, tz, op, args, ret>>
idVars == <<habitsSheet, highestHabitId, lastHabitIdNumber, issued>>
boardVars == <<sheets, dashboardSheet, formatRules, backupSheets, frequencyHeader>>
mailVars == <<configSheet, scriptProperties, gmailThreads, outbox, formChoices, formUpdateButton>>
vars == <<trackingSheet, now, tz, op, args, ret,
          habitsSheet, highestHabitId, lastHabitIdNumber, issued,
          sheets, dashboardSheet, formatRules, backupSheets, frequencyHeader,
          configSheet, scriptProperties, gmailThreads, outbox, formChoices, formUpdateButton>>

(***************************************************************************)
(* Bounds of the model                                                     *)
(***************************************************************************)
TicksPerDay == 2        \* clock resolution: ticks in one day
MaxLog == 2             \* longest enumerated tracking log
HistoryDays == 3        \* enumerated events lie on today or this many days back
Today == 400            \* UTC day number of the earliest value of the clock
MaxRows == 2            \* most data rows in Habits_Main
MaxId == 3              \* identifiers are issued while the number is <= MaxId
MaxIssued == 3          \* identifiers are issued while fewer than this were
MaxRules == 4           \* the dashboard is rewritten while its rules number <= MaxRules
ClockTicks == 1         \* the clock advances this many ticks past the first instant
MailDays == 1           \* the mail is followed for this many days

(***************************************************************************)
(* Program constants                                                       *)
(***************************************************************************)
StreakScanDays_inclusive == 365 + 1   \* variant: i <= 365
StreakScanDays == 365   \* for (let i = 0; i < 365; i++)
GraceOffset == 1        \* if (i <= 1 && !hasDataForDate)
ViewLastOffset_from30 == 29 + 1       \* variant: for (let i = 30; i >= 0; i--)
ViewLastOffset == 29    \* for (let i = 29; i >= 0; i--)

TzOffsets == {-1, 0, 1}
Targets == {1, 2}
Counts == {0, 1, 2}     \* column F; 0 stands for a zero or an empty cell

(***************************************************************************)
(* Text utilities                                                          *)
(***************************************************************************)
Digits == <<"0", "1", "2", "3", "4", "5", "6", "7", "8", "9">>

IsDigit(c) == \E d \in 1..10 : Digits[d] = c

DigitValue(c) == (CHOOSE d \in 1..10 : Digits[d] = c) - 1

\* Number.prototype.toString() of a non-negative integer
RECURSIVE numberToString(_)
numberToString(n) ==
    IF n < 10 THEN <<Digits[n + 1]>>
    ELSE numberToString(n \div 10) \o <<Digits[(n % 10) + 1]>>

\* String.prototype.padStart(3, '0')
RECURSIVE padStart3(_)
padStart3(str) == IF Len(str) >= 3 THEN str ELSE padStart3(<<"0">> \o str)

NaN == -1

\* parseInt(str): the number written by the leading digits, NaN when there is none
RECURSIVE parseDigits(_, _)
parseDigits(str, acc) ==
    IF str = <<>> \/ ~IsDigit(Head(str)) THEN acc
    ELSE parseDigits(Tail(str), acc * 10 + DigitValue(Head(str)))

parseInt(str) ==
    IF str = <<>> \/ ~IsDigit(Head(str)) THEN NaN ELSE parseDigits(str, 0)

\* 'H' + nextID.toString().padStart(3, '0')
formatHabitId(n) == <<"H">> \o padStart3(numberToString(n))

(***************************************************************************)
(* Calendar utilities                                                      *)
(***************************************************************************)
Abs(x) == IF x < 0 THEN -x ELSE x

Max(a, b) == IF a >= b THEN a ELSE b

\* Math.ceil(a / b) for a >= 0, b > 0
Ceil(a, b) == (a + b - 1) \div b

\* date.toISOString().split('T')[0]: the UTC calendar date, as a day number
toISODateKey(date) == date \div TicksPerDay

\* the calendar date of an instant in the script's time zone, as a day number
LocalDate(date) == (date + tz) \div TicksPerDay

\* d.setDate(d.getDate() + n): n calendar days later, same local time of day
addDays(date, n) == date + n * TicksPerDay

getDaysBetweenDates(date1, date2) == Ceil(Abs(date2 - date1), TicksPerDay)

isSameDay(d1, d2) == LocalDate(d1) = LocalDate(d2)

(***************************************************************************)
(* Completion aggregator                                                   *)
(***************************************************************************)
\* variant: entry[5] taken as it is, without the default of 1
actualOrOne_noDefault(entry) == entry.actualCompletions

\* entry[5] || 1
actualOrOne(entry) == IF entry.actualCompletions = 0 THEN 1 ELSE entry.actualCompletions

\* variant: each matching entry overwrites the total instead of adding to it
RECURSIVE reduceCompletions_overwrite(_, _)
reduceCompletions_overwrite(entries, total) ==
    IF entries = <<>> THEN total
    ELSE reduceCompletions_overwrite(Tail(entries), actualOrOne(Head(entries)))

\* Array.prototype.reduce((total, entry) => total + (entry[5] || 1), total)
RECURSIVE reduceCompletions(_, _)
reduceCompletions(entries, total) ==
    IF entries = <<>> THEN total
    ELSE reduceCompletions(Tail(entries), total + actualOrOne(Head(entries)))

getHabitCompletionsForDate(trackingData, habitId, date) ==
    LET dateKey == toISODateKey(date)
        matching == SelectSeq(trackingData,
                        LAMBDA entry: /\ entry.habitId = habitId
                                      /\ toISODateKey(entry.timestamp) = dateKey)
    IN reduceCompletions(matching, 0)

\* variant: completions === targetFrequency
wasHabitSuccessfulOnDate_exact(trackingData, habitId, date, targetFrequency) ==
    getHabitCompletionsForDate(trackingData, habitId, date) = targetFrequency

wasHabitSuccessfulOnDate(trackingData, habitId, date, targetFrequency) ==
    getHabitCompletionsForDate(trackingData, habitId, date) >= targetFrequency

(***************************************************************************)
(* Streak calculator                                                       *)
(***************************************************************************)
\* trackingData.some(entry => isSameDay(new Date(entry[0]), checkDate))
streakHasDataForDate(trackingData, checkDate) ==
    \E k \in 1..Len(trackingData) : isSameDay(trackingData[k].timestamp, checkDate)

\* One pass through the body of the for loop, at index s.i.
streakStep(trackingData, habitId, targetFrequency, s) ==
    LET checkDate == addDays(now, -s.i)
    IN IF wasHabitSuccessfulOnDate(trackingData, habitId, checkDate, targetFrequency)
       THEN [s EXCEPT !.i = s.i + 1, !.streak = s.streak + 1, !.examined = s.examined + 1]
       ELSE IF s.i <= GraceOffset /\ ~streakHasDataForDate(trackingData, checkDate)
            THEN [s EXCEPT !.i = s.i + 1, !.examined = s.examined + 1]
            ELSE [s EXCEPT !.broken = TRUE, !.examined = s.examined + 1]

\* The for loop: at most n more passes from state s, ending at a break or at
\* i = 365.  (Halving keeps the evaluation shallow; the passes are taken in order.)
RECURSIVE streakLoop(_, _, _, _, _)
streakLoop(trackingData, habitId, targetFrequency, s, n) ==
    IF n = 0 \/ s.broken \/ s.i >= StreakScanDays THEN s
    ELSE IF n = 1 THEN streakStep(trackingData, habitId, targetFrequency, s)
    ELSE LET half == n \div 2
             mid == streakLoop(trackingData, habitId, targetFrequency, s, half)
         IN streakLoop(trackingData, habitId, targetFrequency, mid, n - half)

\* variant: no early return for an empty log, and the days passed (the loop
\* index) returned in place of the days counted
streakScan_noGuardDaysPassed(trackingData, habitId, targetFrequency) ==
    LET s == streakLoop(trackingData, habitId, targetFrequency,
                        [i |-> 0, streak |-> 0, examined |-> 0, broken |-> FALSE],
                        StreakScanDays)
    IN [s EXCEPT !.streak = s.i]

\* The whole function, with the number of days it examined.
streakScan(trackingData, habitId, targetFrequency) ==
    IF Len(trackingData) = 0
    THEN [i |-> 0, streak |-> 0, examined |-> 0, broken |-> FALSE]
    ELSE streakLoop(trackingData, habitId, targetFrequency,
                    [i |-> 0, streak |-> 0, examined |-> 0, broken |-> FALSE],
                    StreakScanDays)

calculateFrequencyBasedStreak(trackingData, habitId, targetFrequency) ==
    streakScan(trackingData, habitId, targetFrequency).streak

(***************************************************************************)
(* Success-rate calculator                                                 *)
(***************************************************************************)
\* trackingData.some(entry => entry[1] === habitId && isSameDay(entryDate, checkDate))
rateHasDataForDate(trackingData, habitId, checkDate) ==
    \E k \in 1..Len(trackingData) :
        /\ trackingData[k].habitId = habitId
        /\ isSameDay(trackingData[k].timestamp, checkDate)

\* checkDate.setTime(startDate.getTime() + (i * 24 * 60 * 60 * 1000))
rateCheckDate(startDate, i) == startDate + i * TicksPerDay

\* for (let i = 0; i < daysBetween; i++) { ... }, from index i with the counters in s
RECURSIVE rateLoop(_, _, _, _, _, _, _)
rateLoop(trackingData, habitId, targetFrequency, startDate, daysBetween, i, s) ==
    IF i >= daysBetween THEN s
    ELSE LET checkDate == rateCheckDate(startDate, i)
             hasDataForDate == rateHasDataForDate(trackingData, habitId, checkDate)
             successful == wasHabitSuccessfulOnDate(trackingData, habitId, checkDate,
                                                    targetFrequency)
             s1 == IF hasDataForDate
                   THEN [totalDaysWithData |-> s.totalDaysWithData + 1,
                         successfulDays |-> IF successful THEN s.successfulDays + 1
                                            ELSE s.successfulDays]
                   ELSE s
         IN rateLoop(trackingData, habitId, targetFrequency, startDate, daysBetween,
                     i + 1, s1)

\* The two counters at the end of the loop.
rateCounters(trackingData, habitId, targetFrequency, startDate, endDate) ==
    rateLoop(trackingData, habitId, targetFrequency, startDate,
             getDaysBetweenDates(startDate, endDate), 0,
             [totalDaysWithData |-> 0, successfulDays |-> 0])

\* variant: the ratio returned without the totalDaysWithData > 0 test
calculateFrequencyBasedSuccessRate_unguarded(trackingData, habitId, targetFrequency, startDate, endDate) ==
    LET c == rateCounters(trackingData, habitId, targetFrequency, startDate, endDate)
    IN [num |-> c.successfulDays * 100, den |-> c.totalDaysWithData]

\* The returned number (successfulDays / totalDaysWithData) * 100, as the exact
\* fraction num / den.
calculateFrequencyBasedSuccessRate(trackingData, habitId, targetFrequency, startDate, endDate) ==
    LET c == rateCounters(trackingData, habitId, targetFrequency, startDate, endDate)
    IN IF c.totalDaysWithData > 0
       THEN [num |-> c.successfulDays * 100, den |-> c.totalDaysWithData]
       ELSE [num |-> 0, den |-> 1]

(***************************************************************************)
(* Average completions per period.  Numbers that need not be whole are     *)
(* kept as exact fractions num / den.                                      *)
(***************************************************************************)
DaysPerWeek == 7

\* entryDate >= startDate && entryDate <= endDate, then the sum of entry[5] || 1
totalCompletions(trackingData, startDate, endDate) ==
    reduceCompletions(SelectSeq(trackingData,
                          LAMBDA entry: /\ entry.timestamp >= startDate
                                        /\ entry.timestamp <= endDate), 0)

\* Math.max(1, f) of a fraction f
maxWithOne(f) == IF f.num >= f.den THEN f ELSE [num |-> 1, den |-> 1]

\* variant: the period count taken without Math.max(1, ...)
averagePeriods_noFloor(frequency, startDate, endDate) ==
    LET daysBetween == getDaysBetweenDates(startDate, endDate)
    IN IF frequency = "Weekly"
       THEN [num |-> daysBetween, den |-> DaysPerWeek]
       ELSE [num |-> daysBetween, den |-> 1]

\* the divisor: weeksBetween for Weekly, daysBetween otherwise
averagePeriods(frequency, startDate, endDate) ==
    LET daysBetween == Max(1, getDaysBetweenDates(startDate, endDate))
    IN IF frequency = "Weekly"
       THEN maxWithOne([num |-> daysBetween, den |-> DaysPerWeek])
       ELSE [num |-> daysBetween, den |-> 1]

\* totalCompletions / periods, as a fraction
calculateAverageCompletionsPerPeriod(trackingData, frequency, startDate, endDate) ==
    IF Len(trackingData) = 0 THEN [num |-> 0, den |-> 1]
    ELSE LET periods == averagePeriods(frequency, startDate, endDate)
         IN [num |-> totalCompletions(trackingData, startDate, endDate) * periods.den,
             den |-> periods.num]

(***************************************************************************)
(* Rolling 30-day view                                                     *)
(***************************************************************************)
\* The text pushed for one day; "check" stands for the check mark.
viewIndicator(completions, targetFrequency) ==
    LET wasSuccessful == completions >= targetFrequency
    IN IF completions = 0 THEN <<"-">>
       ELSE IF wasSuccessful
            THEN IF completions > targetFrequency
                 THEN numberToString(completions) \o <<"check">>
                 ELSE <<"check">>
            ELSE numberToString(completions) \o <<"/">> \o numberToString(targetFrequency)

\* variant: for (let i = 0; i <= 29; i++), the newest day first
getFrequencyBasedThirtyDayView_newestFirst(trackingData, habitId, targetFrequency) ==
    [k \in 1..(ViewLastOffset + 1) |->
        LET i == k - 1
            currentDate == addDays(now, -i)
        IN viewIndicator(getHabitCompletionsForDate(trackingData, habitId, currentDate),
                         targetFrequency)]

\* view.push(...) for i = 29 down to 0: element k is the day i = 29 - (k - 1) back
getFrequencyBasedThirtyDayView(trackingData, habitId, targetFrequency) ==
    [k \in 1..(ViewLastOffset + 1) |->
        LET i == ViewLastOffset - (k - 1)
            currentDate == addDays(now, -i)
        IN viewIndicator(getHabitCompletionsForDate(trackingData, habitId, currentDate),
                         targetFrequency)]

(***************************************************************************)
(* updateDashboard: the rows of one habit handed to the calculators        *)
(***************************************************************************)
\* trackingData.filter(entry => entry[1] === habitId)
relevantTrackingData(trackingData, habitId) ==
    SelectSeq(trackingData, LAMBDA entry: entry.habitId = habitId)

(***************************************************************************)
(* The sheets.  A data row of Habits_Main holds HabitID, HabitName,        *)
(* StartDate, EndDate, Frequency, FrequencyPerPeriod and Status; an empty  *)
(* cell is "" (text), <<>> (identifier) or 0 (number, date).               *)
(***************************************************************************)
SheetNames == {"Habits_Main", "Daily_Tracking", "Dashboard"}

\* a row of which only the HabitID and HabitName cells are filled
newHabitRow(id, name) == [id |-> id, name |-> name, startDate |-> 0, endDate |-> 0, frequency |-> "", frequencyPerPeriod |-> 0, status |-> ""]

\* a sheet without a single cell written
BlankDashboard == [headers |-> <<>>, rows |-> <<>>]

InitBoard ==
    /\ sheets = SheetNames
    /\ dashboardSheet = BlankDashboard
    /\ formatRules = <<>>
    /\ backupSheets = <<>>
    /\ frequencyHeader = "Frequency"

\* 0 stands for a script property that is not set
NoThread == 0

\* the settings after setupInitialConfig at the hour `sent`
configAt(sent) == [lastEmailSent |-> sent, emailFrequency |-> "Daily", debugMode |-> FALSE, accountabilityEmails |-> <<"friend">>]

InitMail ==
    /\ configSheet = configAt(Today * TicksPerDay)
    /\ scriptProperties = [habitTrackerThreadId |-> NoThread, lastKnownHabitTrackerThreadId |-> NoThread]
    /\ gmailThreads = <<>>
    /\ outbox = <<>>
    /\ formChoices = <<>>
    /\ formUpdateButton = ""

(***************************************************************************)
(* Inputs of the analytics functions                                       *)
(***************************************************************************)
HabitIds == {formatHabitId(1), formatHabitId(2)}
FirstHabit == formatHabitId(1)

EventTicks == ((Today - HistoryDays) * TicksPerDay)..(Today * TicksPerDay + TicksPerDay - 1)
NowTicks == (Today * TicksPerDay)..(Today * TicksPerDay + TicksPerDay - 1)

Entries == [timestamp : EventTicks, habitId : HabitIds, actualCompletions : Counts]

\* appendRow stamps each row with new Date(): the rows are in time order
Chronological(log) ==
    \A k \in 1..(Len(log) - 1) : log[k].timestamp <= log[k + 1].timestamp

SmallLogs == {log \in UNION {[1..n -> Entries] : n \in 0..MaxLog} : Chronological(log)}

\* One entry of the first habit a day, at the clock's time of day, for the last
\* StreakScanDays + 1 days, each with 2 completions.
YearLog(clock) ==
    [k \in 1..(StreakScanDays + 1) |->
        [timestamp |-> addDays(clock, k - (StreakScanDays + 1)),
         habitId |-> FirstHabit, actualCompletions |-> 2]]

\* One entry of the first habit on each of the last seven days before the
\* clock's day, each with 3 completions: 21 completions in two weeks.
FortnightLog(clock) ==
    [k \in 1..DaysPerWeek |->
        [timestamp |-> addDays(clock, k - (DaysPerWeek + 1)),
         habitId |-> FirstHabit, actualCompletions |-> 3]]

Frequencies == {"Daily", "Weekly"}

NoArgs == [habitId |-> <<>>, targetFrequency |-> 0, date |-> 0,
           startDate |-> 0, endDate |-> 0, data |-> "", frequency |-> ""]

InitIds ==
    /\ habitsSheet = <<>>
    /\ highestHabitId = [present |-> FALSE, value |-> 0]
    /\ lastHabitIdNumber = <<>>
    /\ issued = <<>>

InitAnalytics ==
    /\ now \in NowTicks
    /\ tz \in TzOffsets
    /\ \/ /\ trackingSheet \in SmallLogs
          /\ \A k \in 1..Len(trackingSheet) : trackingSheet[k].timestamp <= now
       \/ trackingSheet = YearLog(now)
       \/ trackingSheet = FortnightLog(now)
    /\ op = "none"
    /\ args = NoArgs
    /\ ret = 0
    /\ InitIds
    /\ InitBoard
    /\ InitMail

CallCompletions(habitId, date) ==
    /\ op = "none"
    /\ op' = "getHabitCompletionsForDate"
    /\ args' = [NoArgs EXCEPT !.habitId = habitId, !.date = date]
    /\ ret' = getHabitCompletionsForDate(trackingSheet, habitId, date)
    /\ UNCHANGED <<trackingSheet, now, tz>>
    /\ UNCHANGED idVars
    /\ UNCHANGED <<boardVars, mailVars>>

CallStreak(habitId, targetFrequency, data) ==
    LET trackingData == IF data = "relevant"
                        THEN relevantTrackingData(trackingSheet, habitId)
                        ELSE trackingSheet
        scan == streakScan(trackingData, habitId, targetFrequency)
    IN /\ op = "none"
       /\ op' = "calculateFrequencyBasedStreak"
       /\ args' = [NoArgs EXCEPT !.habitId = habitId,
                                 !.targetFrequency = targetFrequency, !.data = data]
       /\ ret' = [streak |-> calculateFrequencyBasedStreak(trackingData, habitId,
                                                           targetFrequency),
                  examined |-> scan.examined]
       /\ UNCHANGED <<trackingSheet, now, tz>>
       /\ UNCHANGED idVars
       /\ UNCHANGED <<boardVars, mailVars>>

CallSuccessRate(habitId, targetFrequency, startDate, endDate) ==
    /\ op = "none"
    /\ startDate <= endDate
    /\ op' = "calculateFrequencyBasedSuccessRate"
    /\ args' = [NoArgs EXCEPT !.habitId = habitId, !.targetFrequency = targetFrequency,
                              !.startDate = startDate, !.endDate = endDate]
    /\ ret' = calculateFrequencyBasedSuccessRate(trackingSheet, habitId, targetFrequency,
                                                 startDate, endDate)
    /\ UNCHANGED <<trackingSheet, now, tz>>
    /\ UNCHANGED idVars
    /\ UNCHANGED <<boardVars, mailVars>>

CallThirtyDayView(habitId, targetFrequency) ==
    /\ op = "none"
    /\ op' = "getFrequencyBasedThirtyDayView"
    /\ args' = [NoArgs EXCEPT !.habitId = habitId, !.targetFrequency = targetFrequency]
    /\ ret' = getFrequencyBasedThirtyDayView(trackingSheet, habitId, targetFrequency)
    /\ UNCHANGED <<trackingSheet, now, tz>>
    /\ UNCHANGED idVars
    /\ UNCHANGED <<boardVars, mailVars>>

CallAverage(frequency, startDate, endDate) ==
    /\ op = "none"
    /\ op' = "calculateAverageCompletionsPerPeriod"
    /\ args' = [NoArgs EXCEPT !.frequency = frequency,
                              !.startDate = startDate, !.endDate = endDate]
    /\ ret' = calculateAverageCompletionsPerPeriod(trackingSheet, frequency,
                                                   startDate, endDate)
    /\ UNCHANGED <<trackingSheet, now, tz>>
    /\ UNCHANGED idVars
    /\ UNCHANGED <<boardVars, mailVars>>

NextAnalytics ==
    \/ \E h \in HabitIds, d \in EventTicks : CallCompletions(h, d)
    \/ \E t \in Targets, data \in {"all", "relevant"} : CallStreak(FirstHabit, t, data)
    \/ \E t \in Targets, s \in EventTicks, e \in NowTicks :
          CallSuccessRate(FirstHabit, t, s, e)
    \/ \E t \in Targets : CallThirtyDayView(FirstHabit, t)
    \/ \E f \in Frequencies, s \in EventTicks \cup {addDays(now, -(2 * DaysPerWeek))},
          e \in NowTicks : CallAverage(f, s, e)

SpecAnalytics == InitAnalytics /\ [][NextAnalytics]_vars

(***************************************************************************)
(* Vocabulary of the properties.  A calendar day is a UTC date (the day    *)
(* number of an instant); the day at offset i is i days before the day of  *)
(* the clock.  The events of a habit on a day are told by position in the  *)
(* log, and a day's total is the sum of their counts.                      *)
(***************************************************************************)
CalendarDay(t) == t \div TicksPerDay

DayAtOffset(i) == CalendarDay(now) - i

EventsOn(log, habitId, day) ==
    {k \in 1..Len(log) : log[k].habitId = habitId /\ CalendarDay(log[k].timestamp) = day}

AnyEventsOn(log, day) == {k \in 1..Len(log) : CalendarDay(log[k].timestamp) = day}

CountOf(entry) == IF entry.actualCompletions >= 1 THEN entry.actualCompletions ELSE 1

RECURSIVE SumCounts(_, _)
SumCounts(log, positions) ==
    IF positions = {} THEN 0
    ELSE LET k == CHOOSE x \in positions : TRUE
         IN CountOf(log[k]) + SumCounts(log, positions \ {k})

DayTotal(log, habitId, day) == SumCounts(log, EventsOn(log, habitId, day))

Qualifies(log, habitId, target, day) == DayTotal(log, habitId, day) >= target

Reorderings(n) == {p \in [1..n -> 1..n] : \A i, j \in 1..n : i # j => p[i] # p[j]}

Permuted(log, p) == [k \in 1..Len(log) |-> log[p[k]]]

Reversed(log) == [k \in 1..Len(log) |-> log[Len(log) + 1 - k]]

\* the log a streak call was given
PassedLog ==
    IF args.data = "relevant"
    THEN SelectSeq(trackingSheet, LAMBDA e: e.habitId = args.habitId)
    ELSE trackingSheet

(***************************************************************************)
(* C2  getHabitCompletionsForDate returns the sum of the counts of exactly *)
(* the events of the given habit whose calendar day is the given day, an   *)
(* absent or zero count standing for 1; it returns 0 when none matches.    *)
(***************************************************************************)
C2_CompletionsAreDaySum ==
    op = "getHabitCompletionsForDate" =>
        ret = DayTotal(trackingSheet, args.habitId, CalendarDay(args.date))

\* two events of the habit on the day asked for, with counts 2 and 1, give 3
C2_Witness ==
    /\ op = "getHabitCompletionsForDate"
    /\ Len(trackingSheet) = 2
    /\ EventsOn(trackingSheet, args.habitId, CalendarDay(args.date)) = {1, 2}
    /\ {trackingSheet[1].actualCompletions, trackingSheet[2].actualCompletions} = {1, 2}
    /\ ret = 3

(***************************************************************************)
(* C3  getHabitCompletionsForDate does not depend on the order of the      *)
(* events: every permutation of the log gives the result the log gave      *)
(* (every permutation of an enumerated log; the reversal of a longer one). *)
(***************************************************************************)
C3_OrderIndependent ==
    op = "getHabitCompletionsForDate" =>
        /\ getHabitCompletionsForDate(Reversed(trackingSheet), args.habitId, args.date) = ret
        /\ Len(trackingSheet) <= MaxLog =>
              \A p \in Reorderings(Len(trackingSheet)) :
                  getHabitCompletionsForDate(Permuted(trackingSheet, p),
                                             args.habitId, args.date) = ret

\* two events with different counts on the day asked for
C3_Witness ==
    /\ op = "getHabitCompletionsForDate"
    /\ Len(trackingSheet) = 2
    /\ EventsOn(trackingSheet, args.habitId, CalendarDay(args.date)) = {1, 2}
    /\ trackingSheet[1].actualCompletions # trackingSheet[2].actualCompletions
    /\ ret > 0

(***************************************************************************)
(* C4  The streak, the success rate and the 30-day view all take a day to  *)
(* have met its target exactly when its total is >= the target: the streak *)
(* counts the examined days whose total is >= target, the success rate     *)
(* counts the days with data whose total is >= target, and the view shows  *)
(* a check mark on the days whose total is >= target.                      *)
(***************************************************************************)
C4_StreakCounted ==
    Cardinality({i \in 0..(ret.examined - 1) :
        Qualifies(PassedLog, args.habitId, args.targetFrequency, DayAtOffset(i))})

C4_RateCounted ==
    Cardinality({i \in 0..(getDaysBetweenDates(args.startDate, args.endDate) - 1) :
        /\ rateHasDataForDate(trackingSheet, args.habitId, rateCheckDate(args.startDate, i))
        /\ Qualifies(trackingSheet, args.habitId, args.targetFrequency,
                     CalendarDay(rateCheckDate(args.startDate, i)))})

C4_RateWithData ==
    Cardinality({i \in 0..(getDaysBetweenDates(args.startDate, args.endDate) - 1) :
        rateHasDataForDate(trackingSheet, args.habitId, rateCheckDate(args.startDate, i))})

C4_HasCheckMark(text) == \E k \in 1..Len(text) : text[k] = "check"

C4_SameTargetCondition ==
    /\ op = "calculateFrequencyBasedStreak" => ret.streak = C4_StreakCounted
    /\ op = "calculateFrequencyBasedSuccessRate" =>
          ret.num * C4_RateWithData = 100 * C4_RateCounted * ret.den
    /\ op = "getFrequencyBasedThirtyDayView" =>
          \A k \in 1..Len(ret) :
              C4_HasCheckMark(ret[k]) <=>
                  Qualifies(trackingSheet, args.habitId, args.targetFrequency,
                            DayAtOffset(Len(ret) - k))

\* a day above its target (3 against 2) is counted in a streak
C4_Witness ==
    /\ op = "calculateFrequencyBasedStreak"
    /\ args.targetFrequency = 2
    /\ DayTotal(PassedLog, args.habitId, DayAtOffset(0)) = 3
    /\ ret.streak = 1

(***************************************************************************)
(* C5  A day at offset 0 or 1 on which the habit has no event at all is    *)
(* skipped, neither ending the streak nor counted: when the first g days   *)
(* (g = 1 or 2) have no event of the habit, the next k days each qualify   *)
(* and the day after them fails (it does not qualify, and it has an event  *)
(* or lies at offset >= 2), the streak is k.  Stated for a call on the     *)
(* habit's own events, as updateDashboard makes it.                        *)
(***************************************************************************)
C5_Missing(i) == EventsOn(PassedLog, args.habitId, DayAtOffset(i)) = {}

C5_Qualifies(i) == Qualifies(PassedLog, args.habitId, args.targetFrequency, DayAtOffset(i))

C5_Fails(i) == ~C5_Qualifies(i) /\ (~C5_Missing(i) \/ i > GraceOffset)

C5_MissingRecentDaySkipped ==
    (op = "calculateFrequencyBasedStreak" /\ args.data = "relevant") =>
        \A g \in 1..(GraceOffset + 1), k \in 0..HistoryDays :
            ( /\ \A i \in 0..(g - 1) : C5_Missing(i)
              /\ \A i \in g..(g + k - 1) : C5_Qualifies(i)
              /\ C5_Fails(g + k) ) => ret.streak = k

(***************************************************************************)
(* C6  The streak is the number of qualifying days among the offsets       *)
(* 0..m-1, m being the smallest offset whose day does not meet the target  *)
(* and either has at least one event or has offset >= 2 (365 when there is *)
(* none): an under-target event today gives 0, and a day without data at   *)
(* offset >= 2 ends the streak.                                            *)
(***************************************************************************)
C6_Stops(i) ==
    /\ ~Qualifies(PassedLog, args.habitId, args.targetFrequency, DayAtOffset(i))
    /\ (AnyEventsOn(PassedLog, DayAtOffset(i)) # {} \/ i > GraceOffset)

C6_StopOffsets == {i \in 0..(StreakScanDays - 1) : C6_Stops(i)}

C6_FirstStop ==
    IF C6_StopOffsets = {} THEN StreakScanDays
    ELSE CHOOSE m \in C6_StopOffsets : \A j \in C6_StopOffsets : m <= j

C6_StreakIsQualifyingDaysBeforeFirstStop ==
    op = "calculateFrequencyBasedStreak" =>
        ret.streak = Cardinality({i \in 0..(C6_FirstStop - 1) :
                          Qualifies(PassedLog, args.habitId, args.targetFrequency,
                                    DayAtOffset(i))})

(***************************************************************************)
(* C7  calculateFrequencyBasedStreak examines at most 365 days and returns *)
(* an integer from 0 to 365, also when every examined day qualifies.       *)
(***************************************************************************)
C7_StreakBounded ==
    op = "calculateFrequencyBasedStreak" =>
        /\ ret.examined \in 0..365
        /\ ret.streak \in 0..365

\* a year of qualifying days: all 365 examined days are counted
C7_Witness ==
    /\ op = "calculateFrequencyBasedStreak"
    /\ Len(PassedLog) > 365
    /\ ret.examined = 365
    /\ ret.streak = 365

(***************************************************************************)
(* C8  calculateFrequencyBasedStreak returns 0 for an empty log, for every *)
(* habit and target.                                                       *)
(***************************************************************************)
C8_EmptyLogStreakZero ==
    (op = "calculateFrequencyBasedStreak" /\ PassedLog = <<>>) => ret.streak = 0

C8_Witness ==
    /\ op = "calculateFrequencyBasedStreak"
    /\ PassedLog = <<>>
    /\ ret.streak = 0

(***************************************************************************)
(* C9  calculateFrequencyBasedSuccessRate returns 100 * S / D, D being the *)
(* number of days of the window on which the habit has at least one event  *)
(* and S the number of those days whose total meets the target; days       *)
(* without an event are not in the denominator, and the result lies        *)
(* between 0 and 100.  (The window is taken as the days the loop visits.)  *)
(***************************************************************************)
C9_WindowDays ==
    {CalendarDay(rateCheckDate(args.startDate, i)) :
        i \in 0..(getDaysBetweenDates(args.startDate, args.endDate) - 1)}

C9_DaysWithData == {d \in C9_WindowDays : EventsOn(trackingSheet, args.habitId, d) # {}}

C9_SuccessfulDays ==
    {d \in C9_DaysWithData : Qualifies(trackingSheet, args.habitId, args.targetFrequency, d)}

C9_RateIsSuccessesOverDaysWithData ==
    op = "calculateFrequencyBasedSuccessRate" =>
        /\ C9_DaysWithData # {} =>
              ret.num * Cardinality(C9_DaysWithData)
                  = 100 * Cardinality(C9_SuccessfulDays) * ret.den
        /\ ret.den > 0 /\ 0 <= ret.num /\ ret.num <= 100 * ret.den

(***************************************************************************)
(* C10  The success-rate window covers every calendar day from the start   *)
(* date to the end date inclusive, whatever the times of day: when all the *)
(* habit's events lie on the end date's day (or all on the start date's    *)
(* day) and meet the target there, the rate is 100.  Stated for a script   *)
(* whose time zone is UTC, where local and UTC dates are the same.         *)
(***************************************************************************)
C10_OnlyDayWithEvents(day) ==
    /\ EventsOn(trackingSheet, args.habitId, day) # {}
    /\ \A k \in 1..Len(trackingSheet) :
          trackingSheet[k].habitId = args.habitId =>
              CalendarDay(trackingSheet[k].timestamp) = day
    /\ Qualifies(trackingSheet, args.habitId, args.targetFrequency, day)

C10_WindowCoversStartAndEndDay ==
    (op = "calculateFrequencyBasedSuccessRate" /\ tz = 0) =>
        /\ C10_OnlyDayWithEvents(CalendarDay(args.endDate)) => ret.num = 100 * ret.den
        /\ C10_OnlyDayWithEvents(CalendarDay(args.startDate)) => ret.num = 100 * ret.den

(***************************************************************************)
(* C11  calculateFrequencyBasedSuccessRate returns 0, a defined number and *)
(* not the outcome of a division by zero, when no day from the start date  *)
(* to the end date has an event of the habit; so for an empty log and for  *)
(* a window of length zero.                                                *)
(***************************************************************************)
C11_NoEventInWindow ==
    \A d \in CalendarDay(args.startDate)..CalendarDay(args.endDate) :
        EventsOn(trackingSheet, args.habitId, d) = {}

C11_RateZeroWithoutData ==
    op = "calculateFrequencyBasedSuccessRate" =>
        /\ ret.den > 0
        /\ (C11_NoEventInWindow \/ trackingSheet = <<>> \/ args.startDate = args.endDate)
              => ret.num = 0

\* the habit has events, but none of them in the window
C11_Witness ==
    /\ op = "calculateFrequencyBasedSuccessRate"
    /\ \E k \in 1..Len(trackingSheet) : trackingSheet[k].habitId = args.habitId
    /\ args.startDate < args.endDate
    /\ C11_NoEventInWindow
    /\ ret.num = 0

(***************************************************************************)
(* C12  getFrequencyBasedThirtyDayView returns exactly 30 elements for     *)
(* every log, habit and target; for an empty log all 30 are "-".           *)
(***************************************************************************)
C12_ViewHasThirtyElements ==
    op = "getFrequencyBasedThirtyDayView" =>
        /\ Len(ret) = 30
        /\ trackingSheet = <<>> => \A k \in 1..30 : ret[k] = <<"-">>

C12_Witness ==
    /\ op = "getFrequencyBasedThirtyDayView"
    /\ trackingSheet = <<>>
    /\ Len(ret) = 30
    /\ ret[1] = <<"-">> /\ ret[30] = <<"-">>

(***************************************************************************)
(* C13  Element k (k = 0..29) of the view is the indicator of the day      *)
(* today - 29 + k, oldest first: with c the day's total it is "-" iff      *)
(* c = 0, the check mark iff c = target, c followed by the check mark iff  *)
(* c > target, and c "/" target iff 0 < c < target.  The four cases        *)
(* exclude each other and cover every day.                                 *)
(***************************************************************************)
C13_Total(k) == DayTotal(trackingSheet, args.habitId, CalendarDay(now) - 29 + k)

C13_IndicatorsByDay ==
    op = "getFrequencyBasedThirtyDayView" =>
        \A k \in 0..29 :
            LET c == C13_Total(k)
                t == args.targetFrequency
                x == ret[k + 1]
            IN /\ (x = <<"-">>) <=> (c = 0)
               /\ (x = <<"check">>) <=> (c = t)
               /\ (x = numberToString(c) \o <<"check">>) <=> (c > t)
               /\ (x = numberToString(c) \o <<"/">> \o numberToString(t)) <=> (0 < c /\ c < t)
               /\ Cardinality({b \in {c = 0, c = t, c > t, 0 < c /\ c < t} : b}) = 1

\* target 2: nothing today, 3 completions yesterday, nothing the day before
C13_Witness ==
    /\ op = "getFrequencyBasedThirtyDayView"
    /\ args.targetFrequency = 2
    /\ ret[30] = <<"-">>
    /\ ret[29] = <<"3", "check">>
    /\ ret[28] = <<"-">>

(***************************************************************************)
(* C14  calculateAverageCompletionsPerPeriod returns the sum of the counts *)
(* of all events with start <= timestamp <= end divided by the number of   *)
(* periods: max(1, days) for Daily and max(1, days / 7) for Weekly, days   *)
(* being the day-difference of start and end.  No day is left out for want *)
(* of data, the divisor is never below 1, and 21 completions in a Weekly   *)
(* window of 14 days give 10.5.                                            *)
(***************************************************************************)
C14_InWindow == {k \in 1..Len(trackingSheet) :
                    /\ args.startDate <= trackingSheet[k].timestamp
                    /\ trackingSheet[k].timestamp <= args.endDate}

C14_Total == SumCounts(trackingSheet, C14_InWindow)

C14_Days == Ceil(Abs(args.endDate - args.startDate), TicksPerDay)

C14_AverageIsTotalOverPeriods ==
    op = "calculateAverageCompletionsPerPeriod" =>
        /\ ret.den > 0
        /\ ret.num <= C14_Total * ret.den
        /\ IF args.frequency = "Weekly"
           THEN IF C14_Days >= 7
                THEN ret.num * C14_Days = 7 * C14_Total * ret.den
                ELSE ret.num = C14_Total * ret.den
           ELSE IF C14_Days >= 1
                THEN ret.num * C14_Days = C14_Total * ret.den
                ELSE ret.num = C14_Total * ret.den

\* Weekly, 14 days, 21 completions: 10.5
C14_Witness ==
    /\ op = "calculateAverageCompletionsPerPeriod"
    /\ args.frequency = "Weekly"
    /\ C14_Days = 14
    /\ C14_Total = 21
    /\ 2 * ret.num = 21 * ret.den

(***************************************************************************)
(* HabitID allocation: the counter in the Config sheet                     *)
(***************************************************************************)
HabitNames == {"Run", "Read"}

\* the number in one HabitID cell, 0 when it is not 'H' followed by a number
idNumber(id) ==
    IF Len(id) >= 1 /\ Head(id) = "H"
    THEN LET numericPart == parseInt(Tail(id))
         IN IF numericPart # NaN THEN numericPart ELSE 0
    ELSE 0

\* the loop over the ids of column A, from row k, keeping the largest number
RECURSIVE maxIdFrom(_, _, _)
maxIdFrom(sheet, k, maxID) ==
    IF k > Len(sheet) THEN maxID
    ELSE maxIdFrom(sheet, k + 1, Max(maxID, idNumber(sheet[k].id)))

findHighestIDInHabitsSheet(sheet) ==
    IF Len(sheet) = 0 THEN 0 ELSE maxIdFrom(sheet, 1, 0)

\* the stored number; a missing row is appended with 0
getStoredHighestHabitID(config) == IF config.present THEN config.value ELSE 0

\* the Config row after storeHighestHabitID(configSheet, newHighestID)
storeHighestHabitID(config, newHighestID) == [present |-> TRUE, value |-> newHighestID]

\* the number getNextHabitID takes: one above the stored and the scanned highest
nextHabitNumber(sheet, config) ==
    Max(getStoredHighestHabitID(config), findHighestIDInHabitsSheet(sheet)) + 1

\* the identifier returned and the Config row left behind
getNextHabitID(sheet, config) ==
    LET nextID == nextHabitNumber(sheet, config)
    IN [id |-> formatHabitId(nextID), config |-> storeHighestHabitID(config, nextID)]

\* cell J1 after setFormUpdateButtonStatus(status)
setFormUpdateButtonStatus(present, button, status) ==
    IF "Habits_Main" \notin present THEN button ELSE status

\* variant: the identifier is written whether or not the HabitID cell is empty
onEdit_overwrite(r, name, col) ==
    /\ r \in 1..(Len(habitsSheet) + 1)
    /\ r <= MaxRows
    /\ col = 1 => r = Len(habitsSheet) + 1
    /\ Len(issued) < MaxIssued
    /\ nextHabitNumber(habitsSheet, highestHabitId) <= MaxId
    /\ LET edited == IF r > Len(habitsSheet)
                     THEN Append(habitsSheet, newHabitRow(<<>>, name))
                     ELSE [habitsSheet EXCEPT ![r].name = name]
           new == getNextHabitID(edited, highestHabitId)
       IN IF col = 2 /\ name # ""
          THEN /\ habitsSheet' = [edited EXCEPT ![r].id = new.id]
               /\ highestHabitId' = new.config
               /\ issued' = Append(issued, new.id)
               /\ formUpdateButton' = setFormUpdateButtonStatus(sheets, formUpdateButton, "pending")
          ELSE /\ habitsSheet' = edited
               /\ UNCHANGED <<highestHabitId, issued, formUpdateButton>>
    /\ UNCHANGED lastHabitIdNumber
    /\ UNCHANGED calcVars
    /\ UNCHANGED boardVars
    /\ UNCHANGED <<configSheet, scriptProperties, gmailThreads, outbox, formChoices>>

\* The user writes a habit name into row r (a new row when r is one past the
\* last).  col is the first column of the edited range: 2 for the name cell
\* alone, 1 for a pasted row whose HabitID cell is empty.  onEdit then gives the
\* row an identifier when the range starts in column 2, the HabitID cell is
\* empty and the name is not.
onEdit(r, name, col) ==
    /\ r \in 1..(Len(habitsSheet) + 1)
    /\ r <= MaxRows
    /\ col = 1 => r = Len(habitsSheet) + 1
    /\ Len(issued) < MaxIssued
    /\ nextHabitNumber(habitsSheet, highestHabitId) <= MaxId
    /\ LET edited == IF r > Len(habitsSheet)
                     THEN Append(habitsSheet, newHabitRow(<<>>, name))
                     ELSE [habitsSheet EXCEPT ![r].name = name]
           new == getNextHabitID(edited, highestHabitId)
       IN IF col = 2 /\ edited[r].id = <<>> /\ name # ""
          THEN /\ habitsSheet' = [edited EXCEPT ![r].id = new.id]
               /\ highestHabitId' = new.config
               /\ issued' = Append(issued, new.id)
               /\ formUpdateButton' = setFormUpdateButtonStatus(sheets, formUpdateButton, "pending")
          ELSE /\ habitsSheet' = edited
               /\ UNCHANGED <<highestHabitId, issued, formUpdateButton>>
    /\ UNCHANGED lastHabitIdNumber
    /\ UNCHANGED calcVars
    /\ UNCHANGED boardVars
    /\ UNCHANGED <<configSheet, scriptProperties, gmailThreads, outbox, formChoices>>

\* The user deletes row r of Habits_Main.
deleteRow(r) ==
    /\ r \in 1..Len(habitsSheet)
    /\ habitsSheet' = [k \in 1..(Len(habitsSheet) - 1) |->
                          IF k < r THEN habitsSheet[k] ELSE habitsSheet[k + 1]]
    /\ UNCHANGED <<highestHabitId, lastHabitIdNumber, issued>>
    /\ UNCHANGED calcVars
    /\ UNCHANGED <<boardVars, mailVars>>

\* for (let row = 2; row <= lastRow; row++): the rows from k on, st holding the
\* sheet, the Config row and the identifiers issued so far
RECURSIVE repairRows(_, _)
repairRows(st, k) ==
    IF k > Len(st.sheet) THEN st
    ELSE IF st.sheet[k].id = <<>> /\ st.sheet[k].name # ""
         THEN LET new == getNextHabitID(st.sheet, st.config)
              IN repairRows([sheet |-> [st.sheet EXCEPT ![k].id = new.id],
                             config |-> new.config,
                             issued |-> Append(st.issued, new.id)], k + 1)
         ELSE repairRows(st, k + 1)

repairMissingHabitIDs ==
    LET done == repairRows([sheet |-> habitsSheet, config |-> highestHabitId,
                            issued |-> issued], 1)
    IN /\ Len(habitsSheet) > 0
       /\ Len(done.issued) <= MaxIssued
       /\ getStoredHighestHabitID(done.config) <= MaxId
       /\ habitsSheet' = done.sheet
       /\ highestHabitId' = done.config
       /\ issued' = done.issued
       /\ UNCHANGED lastHabitIdNumber
       /\ UNCHANGED calcVars
       /\ UNCHANGED <<boardVars, mailVars>>

\* Also the second step of setupInitialConfig.
initializeHabitIDCounter ==
    /\ highestHabitId' = storeHighestHabitID(highestHabitId,
                                             findHighestIDInHabitsSheet(habitsSheet))
    /\ UNCHANGED <<habitsSheet, lastHabitIdNumber, issued>>
    /\ UNCHANGED calcVars
    /\ UNCHANGED <<boardVars, mailVars>>

(***************************************************************************)
(* HabitID allocation: the custom function and its script property         *)
(***************************************************************************)
\* the number generateHabitId() takes: one above the stored property
generatedNumber(property) == (IF property = <<>> THEN 0 ELSE parseInt(property)) + 1

\* =generateHabitId() is entered in the empty HabitID cell of row r (a new row
\* when r is one past the last).
generateHabitId(r) ==
    /\ r \in 1..(Len(habitsSheet) + 1)
    /\ r <= MaxRows
    /\ r <= Len(habitsSheet) => habitsSheet[r].id = <<>>
    /\ Len(issued) < MaxIssued
    /\ generatedNumber(lastHabitIdNumber) <= MaxId
    /\ LET newIdNumber == generatedNumber(lastHabitIdNumber)
           newId == formatHabitId(newIdNumber)
       IN /\ lastHabitIdNumber' = numberToString(newIdNumber)
          /\ habitsSheet' = IF r > Len(habitsSheet)
                            THEN Append(habitsSheet, newHabitRow(newId, ""))
                            ELSE [habitsSheet EXCEPT ![r].id = newId]
          /\ issued' = Append(issued, newId)
    /\ UNCHANGED highestHabitId
    /\ UNCHANGED calcVars
    /\ UNCHANGED <<boardVars, mailVars>>

(***************************************************************************)
(* processNewEntry: one form submission becomes one row of Daily_Tracking. *)
(* entryData is e.namedValues: keys holds the titles of the questions the  *)
(* form has, and each answer is the text [0] of its question ("" when the  *)
(* question was left unanswered).                                          *)
(***************************************************************************)
QHabit == "Habit Selection"
QStatus == "Completion Status"
QLegacyStatus == "Success/Miss"
QCount == "How many times completed today?"
QComments == "Comments"

\* entryData[q][0] of a question the form does not have is a TypeError; the
\* right-hand side of || is read only when the left-hand side is falsy
namedValuesThrow(entryData) ==
    \/ QHabit \notin entryData.keys
    \/ QStatus \notin entryData.keys
    \/ (entryData.completionStatus = "" /\ QLegacyStatus \notin entryData.keys)
    \/ QCount \notin entryData.keys
    \/ QComments \notin entryData.keys

\* entryData['Completion Status'][0] || entryData['Success/Miss'][0]
completionStatusOf(entryData) ==
    IF entryData.completionStatus # "" THEN entryData.completionStatus
    ELSE entryData.successMiss

\* entryData['How many times completed today?'][0] || '1'
completionCountOf(entryData) ==
    IF entryData.completionCount # <<>> THEN entryData.completionCount ELSE <<"1">>

\* '5+' is 5, any other text is parseInt(text) || 1
parseCompletionCount(completionCount) ==
    IF completionCount = <<"5", "+">> THEN 5
    ELSE LET n == parseInt(completionCount)
         IN IF n = NaN \/ n = 0 THEN 1 ELSE n

\* habitData.find(row => row[1] === habitName): the row's index, 0 for none
RECURSIVE findHabitRow(_, _, _)
findHabitRow(habitData, habitName, k) ==
    IF k > Len(habitData) THEN 0
    ELSE IF habitData[k].name = habitName THEN k
    ELSE findHabitRow(habitData, habitName, k + 1)

\* habitRow[4] || 'Daily'
frequencyOf(habit) == IF habit.frequency # "" THEN habit.frequency ELSE "Daily"

\* habitRow[5] || 1
targetOf(habit) == IF habit.frequencyPerPeriod # 0 THEN habit.frequencyPerPeriod ELSE 1

\* let success = false; if (status is 'Completed' or 'Success') success = ...
entrySuccess(completionStatus, actualCount, targetFrequencyPerPeriod) ==
    IF completionStatus \in {"Completed", "Success"}
    THEN actualCount >= targetFrequencyPerPeriod
    ELSE FALSE

\* const newRow = [...]
newTrackingRow(entryData, habitRow, entryTimestamp) ==
    LET actualCount == parseCompletionCount(completionCountOf(entryData))
    IN [timestamp |-> entryTimestamp,
        habitId |-> habitRow.id,
        habitName |-> entryData.habitSelection,
        frequency |-> frequencyOf(habitRow),
        targetFrequencyPerPeriod |-> targetOf(habitRow),
        actualCompletions |-> actualCount,
        success |-> entrySuccess(completionStatusOf(entryData), actualCount,
                                 targetOf(habitRow)),
        comments |-> entryData.comments,
        createdDate |-> entryTimestamp]

\* variant: the row is appended also when no habit has the submitted name
processNewEntry_noLookupGuard(entryData, present, habitData, tracking, entryTimestamp) ==
    LET k == findHabitRow(habitData, entryData.habitSelection, 1)
        habitRow == IF k = 0 THEN newHabitRow(<<>>, entryData.habitSelection)
                    ELSE habitData[k]
    IN IF \/ namedValuesThrow(entryData)
          \/ "Habits_Main" \notin present
          \/ Len(habitData) = 0
          \/ "Daily_Tracking" \notin present
       THEN [outcome |-> "error", tracking |-> tracking]
       ELSE [outcome |-> "appended",
             tracking |-> Append(tracking, newTrackingRow(entryData, habitRow,
                                                          entryTimestamp))]

\* The outcome is "error" when the function throws, "skipped" when it returns
\* at the lookup, "appended" when it ran to its end.  getRange(2, 1, 0, 7) of a
\* sheet without data rows throws, and so does a method call on a sheet that
\* getSheetByName did not find.
processNewEntry(entryData, present, habitData, tracking, entryTimestamp) ==
    LET k == findHabitRow(habitData, entryData.habitSelection, 1)
    IN IF \/ namedValuesThrow(entryData)
          \/ "Habits_Main" \notin present
          \/ Len(habitData) = 0
       THEN [outcome |-> "error", tracking |-> tracking]
       ELSE IF k = 0
       THEN [outcome |-> "skipped", tracking |-> tracking]
       ELSE IF "Daily_Tracking" \notin present
       THEN [outcome |-> "error", tracking |-> tracking]
       ELSE [outcome |-> "appended",
             tracking |-> Append(tracking, newTrackingRow(entryData, habitData[k],
                                                          entryTimestamp))]

(***************************************************************************)
(* updateDashboard: the Dashboard sheet rebuilt from Habits_Main and       *)
(* Daily_Tracking.                                                         *)
(***************************************************************************)
DashboardLabels == <<"Habit Name", "Frequency", "Target/Period", "Days Since Start", "Days Remaining", "Current Streak", "Success Rate", "Avg Completions/Period">>

\* The 30 header cells of the rolling view, oldest first.  Each 'MM/dd' text
\* is kept as the local day it names.
getRollingDates == [k \in 1..(ViewLastOffset + 1) |-> LocalDate(addDays(now, -(ViewLastOffset - (k - 1))))]

\* x.toFixed(1) of the fraction x = f.num / f.den >= 0, halves rounded up
toFixed1(f) ==
    LET tenths == (20 * f.num + f.den) \div (2 * f.den)
    IN numberToString(tenths \div 10) \o <<".">> \o numberToString(tenths % 10)

\* variant: every habit is shown, whatever its Status
activeHabitsOf_anyStatus(habitsData) == habitsData

\* habitsData.filter(row => row[6] === 'Active')
activeHabitsOf(habitsData) == SelectSeq(habitsData, LAMBDA row: row.status = "Active")

\* the row pushed for one active habit
dashboardRow(habit, trackingData) ==
    LET habitId == habit.id
        startDate == habit.startDate
        endDate == habit.endDate
        frequency == frequencyOf(habit)
        targetFrequencyPerPeriod == targetOf(habit)
        relevant == relevantTrackingData(trackingData, habitId)
    IN [habitName |-> habit.name,
        frequency |-> frequency,
        target |-> numberToString(targetFrequencyPerPeriod) \o <<"x">>,
        daysSinceStart |-> getDaysBetweenDates(startDate, now),
        daysRemaining |-> getDaysBetweenDates(now, endDate),
        streak |-> calculateFrequencyBasedStreak(relevant, habitId, targetFrequencyPerPeriod),
        successRate |-> toFixed1(calculateFrequencyBasedSuccessRate(relevant, habitId, targetFrequencyPerPeriod, startDate, now)) \o <<"%">>,
        avgCompletions |-> toFixed1(calculateAverageCompletionsPerPeriod(relevant, frequency, startDate, now)),
        view |-> getFrequencyBasedThirtyDayView(relevant, habitId, targetFrequencyPerPeriod)]

\* getLastRow() of the Dashboard sheet
dashboardLastRow(dashboard) == Len(dashboard.headers) + Len(dashboard.rows)

\* getRange(2, 1, lastRow - 1, lastColumn).clearContent() when lastRow > 1
clearDashboardData(dashboard) ==
    IF dashboardLastRow(dashboard) > 1 THEN [dashboard EXCEPT !.rows = <<>>]
    ELSE dashboard

\* the two rules pushed for a dashboard of numRows rows and numCols columns
newFormatRules(numRows, numCols) ==
    LET range == [row |-> 2, column |-> 8, numRows |-> numRows - 1, numColumns |-> numCols - 7]
    IN <<[whenTextContains |-> "check", range |-> range],
         [whenTextContains |-> "/", range |-> range]>>

\* rules.push(ruleSuccess, rulePartial); sheet.setConditionalFormatRules(rules)
applyFrequencyBasedConditionalFormatting(rules, numRows, numCols) ==
    rules \o newFormatRules(numRows, numCols)

\* The outcome is "error" when the function throws (a sheet that was not
\* found, or getRange over zero data rows), "empty" when it returns for want of
\* an active habit, "written" when it ran to its end.  The data rows are
\* cleared before the two sheets are read.
updateDashboard(present, habitsData, trackingData, dashboard, rules) ==
    LET cleared == clearDashboardData(dashboard)
        shown == activeHabitsOf(habitsData)
        dashboardData == [k \in 1..Len(shown) |-> dashboardRow(shown[k], trackingData)]
    IN IF "Dashboard" \notin present
       THEN [outcome |-> "error", dashboard |-> dashboard, rules |-> rules]
       ELSE IF \/ "Habits_Main" \notin present
               \/ Len(habitsData) = 0
               \/ "Daily_Tracking" \notin present
               \/ Len(trackingData) = 0
       THEN [outcome |-> "error", dashboard |-> cleared, rules |-> rules]
       ELSE IF Len(shown) = 0
       THEN [outcome |-> "empty", dashboard |-> cleared, rules |-> rules]
       ELSE [outcome |-> "written",
             dashboard |-> [headers |-> <<[labels |-> DashboardLabels, dates |-> getRollingDates]>>,
                            rows |-> dashboardData],
             rules |-> applyFrequencyBasedConditionalFormatting(rules,
                           Len(dashboardData) + 1, Len(DashboardLabels) + ViewLastOffset + 1)]

(***************************************************************************)
(* The accountability email                                                *)
(***************************************************************************)
\* timeDiff >= dayInMillis, * 7, * 14 by the configured frequency
shouldSendEmail(lastSentTimestamp, frequency) ==
    LET timeDiff == now - lastSentTimestamp
    IN CASE frequency = "Daily" -> timeDiff >= TicksPerDay
         [] frequency = "Weekly" -> timeDiff >= TicksPerDay * DaysPerWeek
         [] frequency = "Bi-weekly" -> timeDiff >= TicksPerDay * (2 * DaysPerWeek)
         [] OTHER -> FALSE

\* GmailApp.search("thread:" + id) finds the thread while it has messages
threadFound(threads, id) == id # NoThread /\ id \in 1..Len(threads) /\ threads[id] > 0

\* A cell value is kept with its type: a [word] or [chars] text, a [number],
\* a [boolean], a [date].
\* One appended row as getValues() returns it, columns A to I.
trackingRowValues(row) ==
    <<[date |-> row.timestamp], [chars |-> row.habitId], [word |-> row.habitName],
      [word |-> row.frequency], [number |-> row.targetFrequencyPerPeriod],
      [number |-> row.actualCompletions], [boolean |-> row.success],
      [word |-> row.comments], [date |-> row.createdDate]>>

NoComment == [word |-> ""]

\* the values that `comment || ''` replaces by ''
falsy(cell) == cell \in {[word |-> ""], [boolean |-> FALSE], [number |-> 0]}

\* lastEntry[6] of the last row, '' when that is falsy or there is no row
getRecentComments(present, tracking) ==
    IF "Daily_Tracking" \notin present \/ Len(tracking) = 0 THEN NoComment
    ELSE LET lastEntry == trackingRowValues(tracking[Len(tracking)])
             comment == lastEntry[6 + 1]
         IN IF falsy(comment) THEN NoComment ELSE comment

\* One data row of the Dashboard as getDisplayValues() returns it: the eight
\* leading columns, then the 30 cells of the view.  Numbers are shown as text.
dashboardDisplayRow(row) ==
    <<[word |-> row.habitName], [word |-> row.frequency], [chars |-> row.target],
      [chars |-> numberToString(row.daysSinceStart)],
      [chars |-> numberToString(row.daysRemaining)],
      [chars |-> numberToString(row.streak)],
      [chars |-> row.successRate], [chars |-> row.avgCompletions]>>
    \o [k \in 1..Len(row.view) |-> [chars |-> row.view[k]]]

\* the header row: the labels, then the dates of the view
dashboardDisplayHeader(header) ==
    [k \in 1..Len(header.labels) |-> [word |-> header.labels[k]]]
    \o [k \in 1..Len(header.dates) |-> [date |-> header.dates[k]]]

\* dashboardSheet.getDataRange().getDisplayValues()
getDisplayValues(dashboard) ==
    [k \in 1..Len(dashboard.headers) |-> dashboardDisplayHeader(dashboard.headers[k])]
    \o [k \in 1..Len(dashboard.rows) |-> dashboardDisplayRow(dashboard.rows[k])]

\* row.slice(0, n) and row.slice(-n)
sliceFirst(row, n) == SubSeq(row, 1, IF n < Len(row) THEN n ELSE Len(row))
sliceLast(row, n) == SubSeq(row, IF n < Len(row) THEN Len(row) - n + 1 ELSE 1, Len(row))

DetailColumns == 5
LastDays == 7

\* the <th> cells of the first header row of the mail's table
EmailHeadings == <<"Habit Name", "Days Since Start", "Days Remaining", "Current Streak", "Success %">>

\* the class of one day cell
dayCellClass(cell) == IF cell = [chars |-> <<"check">>] THEN "success" ELSE "neutral"

\* The mail body, kept as what it shows: the comment section (when comments
\* is truthy), the headings, the dates of the second header row, and for each
\* data row its first five cells and its last seven.
generateEnhancedHtmlEmail(dashboardData, comments) ==
    [comment |-> comments,
     headings |-> EmailHeadings,
     dates |-> sliceLast(dashboardData[1], LastDays),
     rows |-> [k \in 1..(Len(dashboardData) - 1) |->
                  LET row == dashboardData[k + 1]
                      days == sliceLast(row, LastDays)
                  IN [details |-> sliceFirst(row, DetailColumns),
                      days |-> days,
                      classes |-> [d \in 1..Len(days) |-> dayCellClass(days[d])]]]]

\* What Gmail does to one call of sendEmailWithThreadManagement: the call of
\* the threaded path that throws ("search": GmailApp.search; "send":
\* GmailApp.sendEmail of a reply, or createDraft/send before the draft is
\* delivered; "getThread": getThread, getId or setProperty after the draft was
\* delivered; "none": no call throws), and what the fallback sendEmail does
\* if it is reached.
GmailFailurePoints == {"none", "search", "send", "getThread"}
GmailOutcomes == [threaded : GmailFailurePoints, fallback : {"delivers", "throws"}]
GmailWorks == [threaded |-> "none", fallback |-> "delivers"]

\* the message delivered into thread id by the call `via`: "reply" (sendEmail
\* with inReplyTo), "draft" (draft.send()) or "fallback" (the plain sendEmail)
deliveredMessage(id, via, htmlBody) == [thread |-> id, via |-> via, time |-> now, htmlBody |-> htmlBody]

\* variant: the id of the new thread is not stored
setThreadIdProperty_notStored(properties, newThreadId) == properties

\* properties.setProperty('habitTrackerThreadId', newThreadId)
setThreadIdProperty(properties, newThreadId) == [properties EXCEPT !.habitTrackerThreadId = newThreadId]

\* A reply goes to the stored thread when it is found; otherwise a new thread
\* is started by a draft and its id stored, the old id kept as lastKnown.  An
\* exception anywhere in that path leads to the fallback: a plain sendEmail,
\* which starts a thread of its own; when that throws too, the function
\* throws.  The outcome is "returned" or "thrown".
sendEmailWithThreadManagement(htmlBody, properties, threads, sent, gmail) ==
    LET currentThreadId == properties.habitTrackerThreadId
        same == [threw |-> FALSE, properties |-> properties, threads |-> threads, sent |-> sent]
        newThreadId == Len(threads) + 1
        noted == IF currentThreadId # NoThread
                 THEN [properties EXCEPT !.lastKnownHabitTrackerThreadId = currentThreadId]
                 ELSE properties
        tried ==
            IF currentThreadId # NoThread /\ gmail.threaded = "search"
            THEN [same EXCEPT !.threw = TRUE]
            ELSE IF threadFound(threads, currentThreadId)
            THEN IF gmail.threaded = "send"
                 THEN [same EXCEPT !.threw = TRUE]
                 ELSE [same EXCEPT !.threads = [threads EXCEPT ![currentThreadId] = @ + 1],
                                   !.sent = Append(sent, deliveredMessage(currentThreadId, "reply", htmlBody))]
            ELSE IF gmail.threaded = "send"
                 THEN [same EXCEPT !.threw = TRUE, !.properties = noted]
                 ELSE IF gmail.threaded = "getThread"
                 THEN [threw |-> TRUE, properties |-> noted,
                       threads |-> Append(threads, 1),
                       sent |-> Append(sent, deliveredMessage(newThreadId, "draft", htmlBody))]
                 ELSE [threw |-> FALSE,
                       properties |-> setThreadIdProperty(noted, newThreadId),
                       threads |-> Append(threads, 1),
                       sent |-> Append(sent, deliveredMessage(newThreadId, "draft", htmlBody))]
        state == [properties |-> tried.properties, threads |-> tried.threads, sent |-> tried.sent]
    IN IF ~tried.threw
       THEN [outcome |-> "returned"] @@ state
       ELSE IF gmail.fallback = "throws"
       THEN [outcome |-> "thrown"] @@ state
       ELSE [outcome |-> "returned",
             properties |-> tried.properties,
             threads |-> Append(tried.threads, 1),
             sent |-> Append(tried.sent, deliveredMessage(Len(tried.threads) + 1, "fallback", htmlBody))]

\* configSheet row 'LastEmailSent' := new Date()
updateLastEmailSentTimestamp(config) == [config EXCEPT !.lastEmailSent = now]

\* The outcome is "skipped" at each of the four early returns, "failed" when
\* sendEmailWithThreadManagement throws (the catch block only logs, and the
\* time of sending is not recorded), "sent" otherwise.
sendAccountabilityEmail(config, present, tracking, dashboard, properties, threads, sent, gmail) ==
    IF \/ Len(config.accountabilityEmails) = 0
       \/ config.debugMode
       \/ "Dashboard" \notin present
       \/ dashboardLastRow(dashboard) <= 1
    THEN [outcome |-> "skipped", config |-> config, properties |-> properties,
          threads |-> threads, sent |-> sent]
    ELSE LET comments == getRecentComments(present, tracking)
             htmlBody == generateEnhancedHtmlEmail(getDisplayValues(dashboard), comments)
             mail == sendEmailWithThreadManagement(htmlBody, properties, threads, sent, gmail)
         IN [outcome |-> IF mail.outcome = "thrown" THEN "failed" ELSE "sent",
             config |-> IF mail.outcome = "thrown" THEN config
                        ELSE updateLastEmailSentTimestamp(config),
             properties |-> mail.properties, threads |-> mail.threads, sent |-> mail.sent]

(***************************************************************************)
(* migrateToFrequencyTracking                                              *)
(***************************************************************************)
\* Column E of one habit after the 'Frequency' branch: text containing 'daily'
\* or '1' becomes 1, text with 2, 3 or 4 that number, any other text 1.  The
\* cell then shows "1" for every text a habit row of this model holds.
migratedFrequency(cell) == IF cell \in {"2", "3", "4"} THEN cell ELSE "1"

\* The header row holds neither 'DesiredTimes' nor, in columns other than E,
\* a frequency title that indexOf would find before column E.
migrateHabitsMainSheet(present, header, habitsData) ==
    IF "Habits_Main" \notin present
    THEN [header |-> header, habits |-> habitsData]
    ELSE IF header = "FrequencyPerDay"
    THEN [header |-> "FrequencyPerPeriod", habits |-> habitsData]
    ELSE IF header = "Frequency"
    THEN [header |-> "FrequencyPerDay",
          habits |-> [k \in 1..Len(habitsData) |->
                        [habitsData[k] EXCEPT !.frequency = migratedFrequency(@)]]]
    ELSE [header |-> "Frequency",
          habits |-> [k \in 1..Len(habitsData) |->
                        [habitsData[k] EXCEPT !.frequency = "Daily",
                                              !.frequencyPerPeriod = 1]]]

\* the date in the name of the backup sheet: yyyyMMdd in the script time zone
backupDate == LocalDate(now)

\* insertSheet throws when a sheet of that name exists; otherwise the rows
\* are copied to the backup and the tracking sheet is cleared to its headers.
migrateTrackingSheet(present, tracking, backups) ==
    IF "Daily_Tracking" \notin present
    THEN [outcome |-> "done", tracking |-> tracking, backups |-> backups]
    ELSE IF \E k \in 1..Len(backups) : backups[k].date = backupDate
    THEN [outcome |-> "error", tracking |-> tracking, backups |-> backups]
    ELSE [outcome |-> "done", tracking |-> <<>>,
          backups |-> Append(backups, [date |-> backupDate, rows |-> tracking])]

\* dashboardSheet.clear()
migrateDashboardSheet(present, dashboard) ==
    IF "Dashboard" \notin present THEN dashboard ELSE BlankDashboard

(***************************************************************************)
(* The tracker at work: two habits, the form, the dashboard, the mail      *)
(***************************************************************************)
HabitStart == addDays(Today * TicksPerDay, -1)
HabitEnd == addDays(Today * TicksPerDay, HistoryDays)

\* Run: daily, once a day.  Read: weekly, twice.
TrackedHabits ==
    <<[id |-> formatHabitId(1), name |-> "Run", startDate |-> HabitStart, endDate |-> HabitEnd, frequency |-> "Daily", frequencyPerPeriod |-> 1, status |-> "Active"],
      [id |-> formatHabitId(2), name |-> "Read", startDate |-> HabitStart, endDate |-> HabitEnd, frequency |-> "Weekly", frequencyPerPeriod |-> 2, status |-> "Active"]>>

Statuses == {"Active", "Paused", "Completed"}

\* the questions of the form after updateFormForFrequencyTracking
CurrentForm == {QHabit, QStatus, QCount, QComments}

\* the questions of the form before it: a Success/Miss question and no count
LegacyForm == {QHabit, QLegacyStatus, QComments}

\* a form that has the status question but not yet the count question
CountlessForm == {QHabit, QStatus, QComments}

answers(keys, habit, status, legacy, count) == [keys |-> keys, habitSelection |-> habit, completionStatus |-> status, successMiss |-> legacy, completionCount |-> count, comments |-> ""]

\* What a submission can carry: the choices of the current form for the first
\* habit, completed counts for the second, a name that no habit has (Swim), a
\* count left unanswered or typed as other text, and the forms without a count
\* question.
FormSubmissions ==
    {answers(CurrentForm, "Run", st, "", c) : st \in {"Completed", "Missed"}, c \in {<<"1">>, <<"2">>}}
    \cup {answers(CurrentForm, "Read", "Completed", "", c) : c \in {<<"1">>, <<"2">>}}
    \cup {answers(CurrentForm, "Swim", "Completed", "", <<"1">>)}
    \cup {answers(CurrentForm, "Run", "Completed", "", c) : c \in {<<>>, <<"a", "b", "c">>, <<"0">>, <<"5", "+">>}}
    \cup {answers(LegacyForm, "Run", "", "Success", <<>>), answers(CountlessForm, "Run", "Completed", "", <<>>)}

InitTracker ==
    /\ trackingSheet = <<>>
    /\ now = Today * TicksPerDay
    /\ tz = 0
    /\ op = "none"
    /\ args = NoArgs
    /\ ret = 0
    /\ habitsSheet = TrackedHabits
    /\ highestHabitId = [present |-> TRUE, value |-> Len(TrackedHabits)]
    /\ lastHabitIdNumber = <<>>
    /\ issued = [k \in 1..Len(TrackedHabits) |-> TrackedHabits[k].id]
    /\ sheets \in {SheetNames} \cup {SheetNames \ {name} : name \in SheetNames}
    /\ dashboardSheet = BlankDashboard
    /\ formatRules = <<>>
    /\ backupSheets = <<>>
    /\ frequencyHeader = "Frequency"
    /\ configSheet \in {configAt(addDays(now, -1)), configAt(now)}
    /\ scriptProperties = [habitTrackerThreadId |-> NoThread, lastKnownHabitTrackerThreadId |-> NoThread]
    /\ gmailThreads = <<>>
    /\ outbox = <<>>
    /\ formChoices = <<"Run", "Read">>
    /\ formUpdateButton = "success"

NotRun == "not run"

\* The installable trigger of the form, gmail being what Gmail does to the
\* mail if one is sent.  getConfig() is read first; an
\* exception of processNewEntry or updateDashboard ends the handler in its
\* catch block, which only logs.
onFormSubmit(entryData, gmail) ==
    LET config == configSheet
        entry == processNewEntry(entryData, sheets, habitsSheet, trackingSheet, now)
        boardRuns == entry.outcome # "error"
        board == IF boardRuns
                 THEN updateDashboard(sheets, habitsSheet, entry.tracking, dashboardSheet, formatRules)
                 ELSE [outcome |-> NotRun, dashboard |-> dashboardSheet, rules |-> formatRules]
        mailRuns == /\ boardRuns
                    /\ board.outcome # "error"
                    /\ shouldSendEmail(config.lastEmailSent, config.emailFrequency)
        mail == IF mailRuns
                THEN sendAccountabilityEmail(configSheet, sheets, entry.tracking, board.dashboard, scriptProperties, gmailThreads, outbox, gmail)
                ELSE [outcome |-> NotRun, config |-> configSheet, properties |-> scriptProperties, threads |-> gmailThreads, sent |-> outbox]
    IN /\ entry.outcome = "appended" => Len(trackingSheet) < MaxLog
       /\ Len(board.rules) <= MaxRules
       /\ op' = "onFormSubmit"
       /\ args' = entryData
       /\ ret' = [processNewEntry |-> entry.outcome, updateDashboard |-> board.outcome, sendAccountabilityEmail |-> mail.outcome]
       /\ trackingSheet' = entry.tracking
       /\ dashboardSheet' = board.dashboard
       /\ formatRules' = board.rules
       /\ configSheet' = mail.config
       /\ scriptProperties' = mail.properties
       /\ gmailThreads' = mail.threads
       /\ outbox' = mail.sent
       /\ UNCHANGED <<now, tz, sheets, backupSheets, frequencyHeader, formChoices, formUpdateButton>>
       /\ UNCHANGED idVars

\* updateDashboard run on its own
runUpdateDashboard ==
    LET board == updateDashboard(sheets, habitsSheet, trackingSheet, dashboardSheet, formatRules)
    IN /\ Len(board.rules) <= MaxRules
       /\ op' = "updateDashboard"
       /\ args' = NoArgs
       /\ ret' = [processNewEntry |-> NotRun, updateDashboard |-> board.outcome, sendAccountabilityEmail |-> NotRun]
       /\ dashboardSheet' = board.dashboard
       /\ formatRules' = board.rules
       /\ UNCHANGED <<trackingSheet, now, tz, sheets, backupSheets, frequencyHeader>>
       /\ UNCHANGED idVars
       /\ UNCHANGED mailVars

NoCallReturn == [processNewEntry |-> NotRun, updateDashboard |-> NotRun, sendAccountabilityEmail |-> NotRun]

\* The user sets the Status cell of habit row r.  onEdit does nothing for an
\* edit outside column 2.
editHabitStatus(r, status) ==
    /\ r \in 1..Len(habitsSheet)
    /\ habitsSheet[r].status # status
    /\ habitsSheet' = [habitsSheet EXCEPT ![r].status = status]
    /\ op' = "onEdit"
    /\ args' = NoArgs
    /\ ret' = NoCallReturn
    /\ UNCHANGED <<trackingSheet, now, tz>>
    /\ UNCHANGED <<highestHabitId, lastHabitIdNumber, issued>>
    /\ UNCHANGED <<boardVars, mailVars>>

\* Time passes.
tick ==
    /\ now < Today * TicksPerDay + ClockTicks
    /\ now' = now + 1
    /\ op' = "tick"
    /\ args' = NoArgs
    /\ ret' = NoCallReturn
    /\ UNCHANGED <<trackingSheet, tz>>
    /\ UNCHANGED <<idVars, boardVars, mailVars>>

\* The menu function, the user answering the alert with YES.  It is a
\* one-time migration: the user runs it while column E is still 'Frequency'.
\* The five steps run in order inside one try block; the form and the data
\* validation rules the last two steps rewrite are not part of this state.
migrateToFrequencyTracking ==
    LET habits == migrateHabitsMainSheet(sheets, frequencyHeader, habitsSheet)
        tracking == migrateTrackingSheet(sheets, trackingSheet, backupSheets)
    IN /\ frequencyHeader = "Frequency"
       /\ op' = "migrateToFrequencyTracking"
       /\ args' = NoArgs
       /\ ret' = [NoCallReturn EXCEPT !.processNewEntry = tracking.outcome]
       /\ frequencyHeader' = habits.header
       /\ habitsSheet' = habits.habits
       /\ trackingSheet' = tracking.tracking
       /\ backupSheets' = tracking.backups
       /\ dashboardSheet' = IF tracking.outcome = "error" THEN dashboardSheet
                             ELSE migrateDashboardSheet(sheets, dashboardSheet)
       /\ UNCHANGED <<now, tz, sheets, formatRules>>
       /\ UNCHANGED <<highestHabitId, lastHabitIdNumber, issued>>
       /\ UNCHANGED mailVars

NextTracker ==
    \/ \E entryData \in FormSubmissions : onFormSubmit(entryData, GmailWorks)
    \/ runUpdateDashboard
    \/ \E r \in 1..MaxRows, status \in Statuses : editHabitStatus(r, status)

SpecTracker == InitTracker /\ [][NextTracker]_vars

\* The tracker on the day of its migration: every sheet is there.
InitMigration == InitTracker /\ sheets = SheetNames

NextMigration ==
    \/ \E entryData \in FormSubmissions : onFormSubmit(entryData, GmailWorks)
    \/ tick
    \/ migrateToFrequencyTracking

SpecMigration == InitMigration /\ [][NextMigration]_vars

(***************************************************************************)
(* The mail from one day to the next                                       *)
(***************************************************************************)
\* the listed frequencies and one that shouldSendEmail does not list
EmailFrequencies == {"Daily", "Weekly", "Bi-weekly", "Monthly"}

commented(entryData, text) == [entryData EXCEPT !.comments = text]

\* submissions for the first habit, done or missed, with and without a comment
MailSubmissions ==
    {commented(answers(CurrentForm, "Run", st, "", <<"1">>), text) :
        st \in {"Completed", "Missed"}, text \in {"", "felt good"}}

\* Every sheet is there; the last mail went out two weeks ago, a week ago
\* (each to the hour, or half a day less) or just now.
InitMailbox ==
    /\ trackingSheet = <<>>
    /\ now = Today * TicksPerDay
    /\ tz = 0
    /\ op = "none"
    /\ args = NoArgs
    /\ ret = 0
    /\ habitsSheet = TrackedHabits
    /\ highestHabitId = [present |-> TRUE, value |-> Len(TrackedHabits)]
    /\ lastHabitIdNumber = <<>>
    /\ issued = [k \in 1..Len(TrackedHabits) |-> TrackedHabits[k].id]
    /\ InitBoard
    /\ \E weeks \in 0..2, late \in 0..1, frequency \in EmailFrequencies :
          LET sent == IF weeks = 0 THEN now ELSE addDays(now, -(weeks * DaysPerWeek)) + late IN
          configSheet = [configAt(sent) EXCEPT !.emailFrequency = frequency]
    /\ scriptProperties = [habitTrackerThreadId |-> NoThread, lastKnownHabitTrackerThreadId |-> NoThread]
    /\ gmailThreads = <<>>
    /\ outbox = <<>>
    /\ formChoices = <<"Run", "Read">>
    /\ formUpdateButton = "success"

\* half a day or a day passes
TimeSteps == {1, TicksPerDay}

timePasses(ticks) ==
    /\ now + ticks <= addDays(Today * TicksPerDay, MailDays)
    /\ now' = now + ticks
    /\ op' = "timePasses"
    /\ args' = NoArgs
    /\ ret' = NoCallReturn
    /\ UNCHANGED <<trackingSheet, tz>>
    /\ UNCHANGED <<idVars, boardVars, mailVars>>

\* The user deletes the conversation id from the mailbox.
deleteThread(id) ==
    /\ id \in 1..Len(gmailThreads)
    /\ gmailThreads[id] > 0
    /\ gmailThreads' = [gmailThreads EXCEPT ![id] = 0]
    /\ op' = "deleteThread"
    /\ args' = NoArgs
    /\ ret' = NoCallReturn
    /\ UNCHANGED <<trackingSheet, now, tz>>
    /\ UNCHANGED <<idVars, boardVars>>
    /\ UNCHANGED <<configSheet, scriptProperties, outbox, formChoices, formUpdateButton>>

NextMail ==
    \/ \E entryData \in MailSubmissions, gmail \in GmailOutcomes :
          \* what Gmail does matters only when a mail is due
          /\ gmail = GmailWorks \/ shouldSendEmail(configSheet.lastEmailSent, configSheet.emailFrequency)
          /\ onFormSubmit(entryData, gmail)
    \/ \E ticks \in TimeSteps : timePasses(ticks)
    \/ \E id \in 1..MaxRules : deleteThread(id)

SpecMail == InitMailbox /\ [][NextMail]_vars

(***************************************************************************)
(* The form's list of habits                                               *)
(***************************************************************************)
\* habitsData.filter(row => row[0]): the rows whose HabitID cell is not empty
rowsWithHabitId(habitsData) == SelectSeq(habitsData, LAMBDA row: row.id # <<>>)

\* The outcome is "skipped" at the early returns (no Habits_Main sheet, no
\* data row, no row with an identifier), "error" when getForm throws for
\* want of a sheet linked to the form, "updated" when the choices were set.
updateHabitFormDropdown(present, habitsData, choices) ==
    LET activeHabits == rowsWithHabitId(habitsData)
        habitChoices == [k \in 1..Len(activeHabits) |-> activeHabits[k].name]
    IN IF "Habits_Main" \notin present \/ Len(habitsData) = 0 \/ Len(activeHabits) = 0
       THEN [outcome |-> "skipped", choices |-> choices]
       ELSE IF "Daily_Tracking" \notin present
       THEN [outcome |-> "error", choices |-> choices]
       ELSE [outcome |-> "updated", choices |-> habitChoices]

\* The menu item 'Update Form Dropdown': the choices are set, then the button
\* cell, whatever the outcome of the first.
updateFormDropdownAndStatus ==
    LET form == updateHabitFormDropdown(sheets, habitsSheet, formChoices)
    IN /\ op' = "updateHabitFormDropdown"
       /\ args' = NoArgs
       /\ ret' = [updateHabitFormDropdown |-> form.outcome]
       /\ formChoices' = form.choices
       /\ formUpdateButton' = setFormUpdateButtonStatus(sheets, formUpdateButton, "success")
       /\ UNCHANGED <<trackingSheet, now, tz>>
       /\ UNCHANGED <<idVars, boardVars>>
       /\ UNCHANGED <<configSheet, scriptProperties, gmailThreads, outbox>>

NextForm ==
    \/ updateFormDropdownAndStatus
    \/ \E r \in 1..MaxRows, status \in Statuses : editHabitStatus(r, status)
    \/ \E r \in 1..MaxRows, name \in HabitNames, col \in 1..2 : onEdit(r, name, col)
    \/ \E r \in 1..MaxRows : deleteRow(r)

SpecForm == InitTracker /\ [][NextForm]_vars

(***************************************************************************)
(* The spreadsheet and its triggers                                        *)
(***************************************************************************)
Init ==
    /\ trackingSheet = <<>>
    /\ now = Today * TicksPerDay
    /\ tz = 0
    /\ op = "none"
    /\ args = NoArgs
    /\ ret = 0
    /\ InitIds
    /\ InitBoard
    /\ InitMail

Next ==
    \/ \E r \in 1..MaxRows, name \in HabitNames \cup {""}, col \in {1, 2} :
          onEdit(r, name, col)
    \/ \E r \in 1..MaxRows : deleteRow(r)
    \/ repairMissingHabitIDs
    \/ initializeHabitIDCounter
    \/ \E r \in 1..MaxRows : generateHabitId(r)

Spec == Init /\ [][Next]_vars

(***************************************************************************)
(* C1  No habit identifier is ever issued twice: every newly issued        *)
(* identifier differs from every identifier issued earlier, also from      *)
(* those whose row has since been deleted.                                 *)
(***************************************************************************)
C1_NoIdentifierIssuedTwice ==
    \A i, j \in 1..Len(issued) : i # j => issued[i] # issued[j]

\* The same, for the Config-sheet allocator alone (no custom-function call).
C1_NoIdentifierIssuedTwiceByCounter ==
    lastHabitIdNumber = <<>> => C1_NoIdentifierIssuedTwice

(***************************************************************************)
(* Vocabulary of the tracker's properties                                  *)
(***************************************************************************)
\* the habit rows that carry the identifier id
HabitsWithId(id) == {k \in 1..Len(habitsSheet) : habitsSheet[k].id = id}

\* the last call was a form submission
Submitted == op = "onFormSubmit"

\* the event the last submission appended
LastEvent == trackingSheet[Len(trackingSheet)]

(***************************************************************************)
(* C15  The Success field of every stored event is true exactly when the   *)
(* event's completion count is at least the target of its habit, whatever  *)
(* completion status was submitted.  (No action of SpecTracker changes a   *)
(* habit's target, so the habit row holds the target of the submission.)   *)
(***************************************************************************)
C15_SuccessIsCountAtLeastTarget ==
    \A k \in 1..Len(trackingSheet) : \A h \in HabitsWithId(trackingSheet[k].habitId) :
        trackingSheet[k].success = (trackingSheet[k].actualCompletions >= habitsSheet[h].frequencyPerPeriod)

\* The same for the events submitted as 'Completed': there the field is the
\* comparison.
C15_SuccessOfCompletedIsCountAtLeastTarget ==
    (Submitted /\ ret.processNewEntry = "appended" /\ args.completionStatus = "Completed")
        => \A h \in HabitsWithId(LastEvent.habitId) :
              LastEvent.success = (LastEvent.actualCompletions >= habitsSheet[h].frequencyPerPeriod)

(***************************************************************************)
(* C16  The log of completion events is append-only: every step of the     *)
(* system leaves the events already stored in place and unchanged, and     *)
(* adds at most one event.                                                 *)
(***************************************************************************)
C16_LogIsAppendOnly ==
    [][/\ Len(trackingSheet') >= Len(trackingSheet)
       /\ Len(trackingSheet') <= Len(trackingSheet) + 1
       /\ SubSeq(trackingSheet', 1, Len(trackingSheet)) = trackingSheet]_vars

(***************************************************************************)
(* C17  A submission naming a habit that no row of Habits_Main carries     *)
(* appends nothing: the log after the step equals the log before it, and   *)
(* the dashboard after the step has no row for the submitted name.         *)
(***************************************************************************)
C17_NoHabitNamed(name) == \A k \in 1..Len(habitsSheet) : habitsSheet[k].name # name

C17_UnknownHabitAppendsNothing ==
    [][(op' = "onFormSubmit" /\ C17_NoHabitNamed(args'.habitSelection))
          => /\ trackingSheet' = trackingSheet
             /\ \A k \in 1..Len(dashboardSheet'.rows) :
                    dashboardSheet'.rows[k].habitName # args'.habitSelection]_vars

\* An unknown name was submitted when the log held an event; the dashboard
\* was rewritten, without a row for it.
C17_Witness ==
    /\ Submitted
    /\ C17_NoHabitNamed(args.habitSelection)
    /\ ret.processNewEntry = "skipped"
    /\ ret.updateDashboard = "written"
    /\ Len(trackingSheet) > 0
    /\ Len(dashboardSheet.rows) > 0

(***************************************************************************)
(* C18  A form submission that fails because a sheet it needs is absent    *)
(* writes nothing: the log and the dashboard after the step are what they  *)
(* were before it.                                                         *)
(***************************************************************************)
C18_Failed(outcome) == outcome.processNewEntry = "error" \/ outcome.updateDashboard = "error"

C18_FailureWritesNothing ==
    [][(op' = "onFormSubmit" /\ sheets # SheetNames /\ C18_Failed(ret'))
          => /\ trackingSheet' = trackingSheet
             /\ dashboardSheet' = dashboardSheet]_vars

\* The same for the submissions that fail inside processNewEntry: those
\* write nothing.
C18_EntryFailureWritesNothing ==
    [][(op' = "onFormSubmit" /\ ret'.processNewEntry = "error")
          => /\ trackingSheet' = trackingSheet
             /\ dashboardSheet' = dashboardSheet]_vars

(***************************************************************************)
(* C19  The completion count of a submission never makes processNewEntry   *)
(* fail: when the other answers are given, the habit exists and the sheets *)
(* are there, the event is appended, with count 1 for a missing or         *)
(* non-numeric count, 5 for "5+", n for a numeric count n >= 1, and a      *)
(* positive count in every case.                                           *)
(***************************************************************************)
C19_IsNumeric(count) == count # <<>> /\ \A k \in 1..Len(count) : count[k] \in {Digits[d] : d \in 1..Len(Digits)}

\* the number a text of decimal digits writes
RECURSIVE C19_NumberOf(_)
C19_NumberOf(count) ==
    IF count = <<>> THEN 0
    ELSE 10 * C19_NumberOf(SubSeq(count, 1, Len(count) - 1))
         + (CHOOSE d \in 0..9 : Digits[d + 1] = count[Len(count)])

C19_CountMissing(entryData) == QCount \notin entryData.keys \/ entryData.completionCount = <<>>

\* the submission is in order but for its count
C19_OnlyCountInDoubt(entryData) ==
    /\ {QHabit, QStatus, QComments} \subseteq entryData.keys
    /\ entryData.completionStatus # ""
    /\ ~C17_NoHabitNamed(entryData.habitSelection)
    /\ sheets = SheetNames

C19_StoredAsClaimed(entryData, stored) ==
    /\ stored >= 1
    /\ C19_CountMissing(entryData) => stored = 1
    /\ (~C19_CountMissing(entryData) /\ entryData.completionCount = <<"5", "+">>) => stored = 5
    /\ (C19_IsNumeric(entryData.completionCount) /\ C19_NumberOf(entryData.completionCount) >= 1)
          => stored = C19_NumberOf(entryData.completionCount)
    /\ (~C19_CountMissing(entryData) /\ ~C19_IsNumeric(entryData.completionCount)
          /\ entryData.completionCount # <<"5", "+">>) => stored = 1

C19_CountNeverFails ==
    [][(op' = "onFormSubmit" /\ C19_OnlyCountInDoubt(args'))
          => /\ ret'.processNewEntry = "appended"
             /\ C19_StoredAsClaimed(args', trackingSheet'[Len(trackingSheet')].actualCompletions)]_vars

\* The same for the submissions of a form that has the count question.
C19_AskedCountNeverFails ==
    [][(op' = "onFormSubmit" /\ C19_OnlyCountInDoubt(args') /\ QCount \in args'.keys)
          => /\ ret'.processNewEntry = "appended"
             /\ C19_StoredAsClaimed(args', trackingSheet'[Len(trackingSheet')].actualCompletions)]_vars

\* Every stored event has a positive count.
C19_StoredCountsPositive ==
    \A k \in 1..Len(trackingSheet) : trackingSheet[k].actualCompletions >= 1

(***************************************************************************)
(* C20  After every updateDashboard that ran to its end (on its own or     *)
(* inside a form submission) the dashboard has exactly one data row for    *)
(* each Active habit and none for any other habit, whatever it held        *)
(* before, and the row of a habit is the one computed from the habit's     *)
(* current record and the events that carry its identifier.                *)
(***************************************************************************)
C20_Completed == op \in {"onFormSubmit", "updateDashboard"} /\ ret.updateDashboard \in {"written", "empty"}

C20_OwnEvents(id) == SelectSeq(trackingSheet, LAMBDA event: event.habitId = id)

C20_RowsOf(k) == {i \in 1..Len(dashboardSheet.rows) : dashboardSheet.rows[i].habitName = habitsSheet[k].name}

C20_OneRowPerActiveHabit ==
    C20_Completed =>
       /\ Len(dashboardSheet.rows) = Cardinality({k \in 1..Len(habitsSheet) : habitsSheet[k].status = "Active"})
       /\ \A k \in 1..Len(habitsSheet) :
             IF habitsSheet[k].status = "Active"
             THEN /\ Cardinality(C20_RowsOf(k)) = 1
                  /\ \A i \in C20_RowsOf(k) :
                        dashboardSheet.rows[i] = dashboardRow(habitsSheet[k], C20_OwnEvents(habitsSheet[k].id))
             ELSE C20_RowsOf(k) = {}

\* The dashboard had a row for each of the two habits; the second habit was
\* paused; the log holds events of both; the dashboard written now has the
\* one row of the first habit.
C20_Witness ==
    /\ C20_Completed
    /\ ret.updateDashboard = "written"
    /\ Len(formatRules) = 4
    /\ formatRules[1].range.numRows = 2
    /\ habitsSheet[1].status = "Active"
    /\ habitsSheet[2].status = "Paused"
    /\ Len(dashboardSheet.rows) = 1
    /\ C20_OwnEvents(habitsSheet[1].id) # <<>>
    /\ C20_OwnEvents(habitsSheet[2].id) # <<>>

(***************************************************************************)
(* C21  The streak of a habit depends only on that habit's events: the     *)
(* streak computed from a log equals the streak computed from the same     *)
(* log with the events of every other habit taken out.  Stated for the     *)
(* time zone UTC, where local and UTC days are the same days.              *)
(***************************************************************************)
C21_OwnEvents(log, id) == SelectSeq(log, LAMBDA event: event.habitId = id)

C22_IdBefore(r) == IF r <= Len(habitsSheet) THEN habitsSheet[r].id ELSE <<>>

C22_AssignedIdsKept ==
    [][(Len(habitsSheet') >= Len(habitsSheet) /\ lastHabitIdNumber' = lastHabitIdNumber)
          => \A r \in 1..Len(habitsSheet') :
                /\ C22_IdBefore(r) # <<>> => habitsSheet'[r].id = C22_IdBefore(r)
                /\ habitsSheet'[r].id # C22_IdBefore(r) => habitsSheet'[r].name # ""]_vars

\* Two rows hold the two identifiers issued, the first of which was there
\* when the second was assigned.
C22_Witness ==
    /\ Len(habitsSheet) = 2
    /\ Len(issued) = 2
    /\ lastHabitIdNumber = <<>>
    /\ habitsSheet[1].id = issued[1]
    /\ habitsSheet[2].id = issued[2]
    /\ issued[1] # issued[2]

(***************************************************************************)
(* C23  Across any sequence of form submissions, any two accountability    *)
(* emails sent by onFormSubmit are at least one configured period apart (1 *)
(* day for Daily, 7 for Weekly, 14 for Bi-weekly), and with any other      *)
(* frequency value no email is ever sent.                                  *)
(***************************************************************************)
C23_Listed == {"Daily", "Weekly", "Bi-weekly"}

C23_PeriodDays ==
    CASE configSheet.emailFrequency = "Daily" -> 1
      [] configSheet.emailFrequency = "Weekly" -> 7
      [] configSheet.emailFrequency = "Bi-weekly" -> 14
      [] OTHER -> 0

C23_EmailsAPeriodApart ==
    /\ configSheet.emailFrequency \notin C23_Listed => outbox = <<>>
    /\ \A i, j \in 1..Len(outbox) :
          i < j => outbox[j].time - outbox[i].time >= C23_PeriodDays * TicksPerDay

(***************************************************************************)
(* C24  One invocation of sendEmailWithThreadManagement delivers at most   *)
(* one email, whichever step of the threaded path fails: a form submission *)
(* adds at most one message to what Gmail has delivered.                   *)
(***************************************************************************)
C24_AtMostOneEmailPerCall == [][Len(outbox') <= Len(outbox) + 1]_vars

(***************************************************************************)
(* C25  After every sendEmailWithThreadManagement that returns normally,   *)
(* habitTrackerThreadId identifies the thread of the message just sent.    *)
(* This fails for a message sent by the fallback.  It holds of the calls   *)
(* whose threaded path delivers the message and raises no exception: after *)
(* a reply the properties are unchanged, after a draft the new thread's id *)
(* is stored and the old id, if there was one, kept as lastKnown.          *)
(***************************************************************************)
C25_ReturnedNormally == op' = "onFormSubmit" /\ ret'.sendAccountabilityEmail = "sent"

C25_LastSent == outbox'[Len(outbox')]

C26_ActiveNames == {habitsSheet[r].name : r \in {k \in 1..Len(habitsSheet) : habitsSheet[k].status = "Active"}}

C26_Choices == {formChoices[k] : k \in 1..Len(formChoices)}

C26_ChoicesAreActiveHabits ==
    [][(updateFormDropdownAndStatus /\ ret'.updateHabitFormDropdown = "updated")
          => C26_Choices' = C26_ActiveNames']_vars

(***************************************************************************)
(* Vocabulary of the mail properties                                       *)
(***************************************************************************)
\* onFormSubmit has just sent the mail whose body is MailedBody
MailJustSent == op = "onFormSubmit" /\ ret.sendAccountabilityEmail = "sent"

MailedBody == outbox[Len(outbox)].htmlBody

(***************************************************************************)
(* C27  In the email table built from the dashboard that updateDashboard   *)
(* wrote, the cells of a habit's row under 'Habit Name', 'Days Since       *)
(* Start', 'Days Remaining', 'Current Streak' and 'Success %' hold its     *)
(* name, days since start, days remaining, streak and success rate, and    *)
(* the seven day cells are the last seven elements of its 30-day view.     *)
(***************************************************************************)
C27_Expected(row) ==
    [details |-> <<[word |-> row.habitName],
                   [chars |-> numberToString(row.daysSinceStart)],
                   [chars |-> numberToString(row.daysRemaining)],
                   [chars |-> numberToString(row.streak)],
                   [chars |-> row.successRate]>>,
     days |-> [d \in 1..7 |-> [chars |-> row.view[Len(row.view) - 7 + d]]]]

C27_TableShowsDashboard ==
    MailJustSent =>
        /\ MailedBody.headings = <<"Habit Name", "Days Since Start", "Days Remaining", "Current Streak", "Success %">>
        /\ Len(MailedBody.rows) = Len(dashboardSheet.rows)
        /\ \A k \in 1..Len(dashboardSheet.rows) :
              /\ MailedBody.rows[k].details = C27_Expected(dashboardSheet.rows[k]).details
              /\ MailedBody.rows[k].days = C27_Expected(dashboardSheet.rows[k]).days

(***************************************************************************)
(* C28  getRecentComments returns the free-text comment of the entry       *)
(* appended last (the empty string when it has none): the comment section  *)
(* of a mail shows the comment of the submission that caused the mail.     *)
(***************************************************************************)
C28_LastComment == [word |-> trackingSheet[Len(trackingSheet)].comments]

C28_CommentOfLastEntry ==
    /\ Len(trackingSheet) > 0 => getRecentComments(sheets, trackingSheet) = C28_LastComment
    /\ MailJustSent => MailedBody.comment = [word |-> args.comments]

(***************************************************************************)
(* C29  The data-presence test and the aggregator agree on the calendar    *)
(* day of an event, whatever the timestamp, the time of day of the checked *)
(* date and the time zone: a day counts as having data (in the grace test  *)
(* of the streak, called on the habit's own events, and in the denominator *)
(* of the success rate) iff getHabitCompletionsForDate for it is > 0.      *)
(***************************************************************************)
C29_RateDays == {rateCheckDate(args.startDate, i) : i \in 0..(getDaysBetweenDates(args.startDate, args.endDate) - 1)}

C29_GraceDays == {addDays(now, -i) : i \in 0..GraceOffset}

C29_PresenceAgreesWithAggregator ==
    /\ op = "calculateFrequencyBasedSuccessRate" =>
          \A checkDate \in C29_RateDays :
              rateHasDataForDate(trackingSheet, args.habitId, checkDate)
                  <=> getHabitCompletionsForDate(trackingSheet, args.habitId, checkDate) > 0
    /\ (op = "calculateFrequencyBasedStreak" /\ args.data = "relevant") =>
          \A checkDate \in C29_GraceDays :
              streakHasDataForDate(PassedLog, checkDate)
                  <=> getHabitCompletionsForDate(PassedLog, args.habitId, checkDate) > 0

(***************************************************************************)
(* C30  updateDashboard is idempotent: run a second time right after the   *)
(* first, with the habits, the log and the date unchanged, it leaves the   *)
(* cells of the Dashboard and its conditional-formatting rules as the      *)
(* first run left them.                                                    *)
(***************************************************************************)
C30_SecondRun == op = "updateDashboard" /\ runUpdateDashboard

C30_UpdateDashboardIdempotent ==
    [][C30_SecondRun => (dashboardSheet' = dashboardSheet /\ formatRules' = formatRules)]_vars


====
